---- MODULE Spec2Model ----
(***************************************************************************)
(* Model of the repository metadata fetcher of bazeldnf                    *)
(* (pkg/repo/fetch.go): RepoFetcherImpl.Fetch and the three functions it   *)
(* calls, resolveMetaLink, resolveRepomd and fetchFile.                    *)
(*                                                                         *)
(* Strings are sequences of tokens ("/" is a token of its own, a scheme    *)
(* with its "://" is one token), the empty string is <<>>.  What the       *)
(* network and the file system answer is chosen by the environment at      *)
(* every request.  One action is one network step of Fetch: the whole of   *)
(* resolveMetaLink, one iteration of the loop of resolveRepomd, the whole  *)
(* of fetchFile.                                                           *)
(***************************************************************************)
EXTENDS Integers, Sequences, FiniteSets, TLC

\* Largest number of configured repositories (len(r.Repos)).
MaxRepos == 2
\* Largest number of <url> elements of the repomd.xml entry of a metalink.
MaxURLs == 2

EmptyStr == <<>>

----------------------------------------------------------------------------
\* String and URL helpers of the Go standard library, on token sequences.

\* strings.TrimSuffix
TrimSuffix(s, suffix) ==
    IF /\ Len(suffix) <= Len(s)
       /\ SubSeq(s, Len(s) - Len(suffix) + 1, Len(s)) = suffix
    THEN SubSeq(s, 1, Len(s) - Len(suffix))
    ELSE s

Schemes == {"https://", "http://"}

\* the characters of a scheme token up to its "//"
SchemeColon(s) == IF s = "https://" THEN "https:" ELSE "http:"

RECURSIVE Clean(_)
\* path.Clean on a path without "." and ".." elements: runs of "/" collapse,
\* a trailing "/" goes unless the path is the root.  To path.Clean the
\* "https://" of a URL is the element "https:" and two slashes.
Clean(p) ==
    IF p = <<>> THEN <<".">>
    ELSE IF p[1] \in Schemes THEN Clean(<<SchemeColon(p[1]), "/", "/">> \o Tail(p))
    ELSE IF Len(p) >= 2 /\ p[1] = "/" /\ p[2] = "/" THEN Clean(Tail(p))
    ELSE IF Len(p) = 1 THEN p
    ELSE IF Len(p) = 2 /\ p[2] = "/" THEN <<p[1]>>
    ELSE LET rest == Clean(Tail(p)) IN
         IF p[1] # "/" /\ rest = <<"/">> THEN <<p[1]>> ELSE <<p[1]>> \o rest

\* index of the last "/" of p, 0 if there is none
LastSlash(p) ==
    LET S == {i \in 1..Len(p) : p[i] = "/"} IN
    IF S = {} THEN 0 ELSE CHOOSE i \in S : \A j \in S : j <= i

\* path.Dir: everything up to the last "/", cleaned
PathDir(p) == Clean(SubSeq(p, 1, LastSlash(p)))

\* path.Join of two elements: empty elements are dropped, the rest is cleaned
PathJoin(a, b) ==
    IF a = <<>> /\ b = <<>> THEN <<>>
    ELSE IF a = <<>> THEN Clean(b)
    ELSE IF b = <<>> THEN Clean(a)
    ELSE Clean(a \o <<"/">> \o b)

\* path.IsAbs
PathIsAbs(p) == Len(p) > 0 /\ p[1] = "/"

\* filepath.Base: the last element of the path, trailing slashes removed
FilepathBase(p) ==
    IF p = <<>> THEN <<".">>
    ELSE LET c == IF Len(p) > 1 /\ p[Len(p)] = "/" THEN SubSeq(p, 1, Len(p) - 1) ELSE p
         IN SubSeq(c, LastSlash(c) + 1, Len(c))

\* url.Parse: scheme and host when the string starts with a scheme, else a bare path
UrlParse(s) ==
    IF Len(s) >= 2 /\ s[1] \in Schemes
    THEN [Scheme |-> s[1], Host |-> s[2], Path |-> SubSeq(s, 3, Len(s))]
    ELSE [Scheme |-> "", Host |-> "", Path |-> s]

\* (*url.URL).String
UrlString(u) ==
    IF u.Scheme = "" THEN u.Path
    ELSE <<u.Scheme, u.Host>>
         \o (IF u.Path # <<>> /\ u.Path[1] # "/" THEN <<"/">> ELSE <<>>)
         \o u.Path

----------------------------------------------------------------------------
\* Content and digests.  A body is a sequence of bytes, here of 0..6; sha256
\* is modelled as an injective function of the bytes hashed (their bijective
\* base-7 numeral), toHex as its base-16 digits.

RECURSIVE Sha256(_)
Sha256(bytes) ==
    IF bytes = <<>> THEN 0
    ELSE 7 * Sha256(SubSeq(bytes, 1, Len(bytes) - 1)) + bytes[Len(bytes)] + 1

RECURSIVE HexDigits(_)
HexDigits(n) == IF n < 16 THEN <<n>> ELSE HexDigits(n \div 16) \o <<n % 16>>

\* toHex(hasher) after `bytes` went through the hasher
toHex(bytes) == HexDigits(Sha256(bytes))

----------------------------------------------------------------------------
\* The documents the environment can serve.

MetalinkURL == <<"https://", "mirrors", "/", "metalink">>
BaseurlPlain == <<"https://", "base", "/", "os">>
BaseurlSlash == BaseurlPlain \o <<"/">>
RepomdPath == <<"/", "repodata", "/", "repomd.xml">>
MirrorURL1 == <<"https://", "m1", "/", "pub">> \o RepomdPath
MirrorURL2 == <<"https://", "m2", "/", "pub">> \o RepomdPath
MirrorTexts == {MirrorURL1, MirrorURL2}

\* bazeldnf.Repository values of the configuration: a metalink, a base URL
\* (with or without a trailing slash), both, or neither.
RepoKinds ==
    { [Metalink |-> MetalinkURL, Baseurl |-> EmptyStr],
      [Metalink |-> MetalinkURL, Baseurl |-> BaseurlPlain],
      [Metalink |-> EmptyStr, Baseurl |-> BaseurlPlain],
      [Metalink |-> EmptyStr, Baseurl |-> BaseurlSlash],
      [Metalink |-> EmptyStr, Baseurl |-> EmptyStr] }

\* Repository names are pairwise distinct: the i-th repository is <<"repo", i>>.
RepoName(i) == <<"repo", i>>

\* Bodies of the typed files a mirror can serve.
TypedBytes == {<<0>>, <<1>>}
PrimarySum == toHex(<<0>>)
FilelistsSum == toHex(<<1>>)

PrimaryFileType == "primary"
FilelistsFileType == "filelists"

PrimaryHref == <<"repodata", "/", "primary.xml.gz">>
FilelistsHref == <<"repodata", "/", "filelists.xml.gz">>

DataEntry(type, sumType, sum, href) ==
    [Type |-> type, Checksum |-> [Type |-> sumType, Text |-> sum],
     Location |-> [Href |-> href]]

GoodPrimary == DataEntry(PrimaryFileType, "sha256", PrimarySum, PrimaryHref)
GoodFilelists == DataEntry(FilelistsFileType, "sha256", FilelistsSum, FilelistsHref)

\* Bodies of repomd.xml a mirror can serve: the bytes, whether they are
\* well-formed XML of a repomd document, and the <data> elements they hold.
RepomdGood ==
    [bytes |-> <<0, 0>>, wellFormed |-> TRUE, Data |-> <<GoodPrimary, GoodFilelists>>]
RepomdGarbage ==
    [bytes |-> <<0, 1>>, wellFormed |-> FALSE, Data |-> <<>>]
RepomdNoPrimary ==
    [bytes |-> <<0, 2>>, wellFormed |-> TRUE, Data |-> <<GoodFilelists>>]
RepomdNoHref ==
    [bytes |-> <<0, 3>>, wellFormed |-> TRUE,
     Data |-> <<GoodPrimary,
                DataEntry(FilelistsFileType, "sha256", FilelistsSum, EmptyStr)>>]
RepomdMd5 ==
    [bytes |-> <<0, 4>>, wellFormed |-> TRUE,
     Data |-> <<DataEntry(PrimaryFileType, "md5", PrimarySum, PrimaryHref),
                GoodFilelists>>]
\* a filelists location that is a full URL, on another host, whose last
\* element is the last element of the primary location
CdnHref == <<"https://", "cdn", "/", "primary.xml.gz">>
RepomdCdn ==
    [bytes |-> <<0, 5>>, wellFormed |-> TRUE,
     Data |-> <<GoodPrimary,
                DataEntry(FilelistsFileType, "sha256", FilelistsSum, CdnHref)>>]
\* a primary location that is an absolute path
AbsHref == <<"/", "abs", "/", "primary.xml.gz">>
RepomdAbs ==
    [bytes |-> <<0, 6>>, wellFormed |-> TRUE,
     Data |-> <<DataEntry(PrimaryFileType, "sha256", PrimarySum, AbsHref),
                GoodFilelists>>]
RepomdBodies ==
    {RepomdGood, RepomdGarbage, RepomdNoPrimary, RepomdNoHref, RepomdMd5,
     RepomdCdn, RepomdAbs}

\* The <hash> a metalink states for repomd.xml.
MetalinkHashes ==
    { [Type |-> "sha256", Text |-> toHex(RepomdGood.bytes)],
      [Type |-> "sha256", Text |-> toHex(RepomdGarbage.bytes)],
      [Type |-> "md5", Text |-> toHex(RepomdGood.bytes)] }

\* api.URL: the protocol attribute and the text of a <url> element.
MetalinkURLEntries == [Protocol : {"https", "http"}, Text : MirrorTexts]

URLLists == UNION {[1..n -> MetalinkURLEntries] : n \in 0..MaxURLs}

\* Bodies a metalink server can answer with: not a metalink document, a
\* metalink without a repomd.xml file, a metalink with one.
MetalinkBodies ==
    { [wellFormed |-> FALSE, Files |-> <<>>], [wellFormed |-> TRUE, Files |-> <<>>] }
    \cup { [wellFormed |-> TRUE,
            Files |-> <<[Name |-> "repomd.xml", URLs |-> us, Hash |-> h]>>]
           : us \in URLLists, h \in MetalinkHashes }

----------------------------------------------------------------------------
\* Accessors of pkg/api that the fetcher calls.

NoFile == [nil |-> TRUE]

\* (*api.Metalink).Repomod: the file entry named repomd.xml, nil if none
Repomod(metalink) ==
    LET S == {i \in 1..Len(metalink.Files) : metalink.Files[i].Name = "repomd.xml"} IN
    IF S = {} THEN NoFile ELSE metalink.Files[CHOOSE i \in S : \A j \in S : i <= j]

\* (*api.File).SHA256 and (*api.Data).SHA256: the sha256 digest, an error if
\* the checksum is of another algorithm
ChecksumSHA256(c) ==
    IF c.Type = "sha256" THEN [err |-> FALSE, sum |-> c.Text]
    ELSE [err |-> TRUE, sum |-> EmptyStr]

\* (*api.Repomd).File: the first <data> element of the type, nil if none
RepomdFile(repomd, fileType) ==
    LET S == {i \in 1..Len(repomd.Data) : repomd.Data[i].Type = fileType} IN
    IF S = {} THEN NoFile ELSE repomd.Data[CHOOSE i \in S : \A j \in S : i <= j]

----------------------------------------------------------------------------
\* The environment: what a request and what a write to the cache answer.

\* getterImpl.Get is http.Get: a URL without a scheme is an error, anything
\* else fails or answers with a body of the environment's choice.
GetResponses(url, bodies) ==
    {[err |-> TRUE]}
    \cup (IF UrlParse(url).Scheme = "" THEN {}
          ELSE {[err |-> FALSE, body |-> b] : b \in bodies})

\* CacheHelper.WriteToRepoDir copies the stream to the file: it succeeds,
\* fails before anything is written, or fails after a prefix was written.
WriteOutcomes == {"ok", "failed", "partial"}

\* Mutant: the error of the SHA256 accessor is dropped.
ChecksumUnavailableIgnored(s) == FALSE

\* `sha256sum, err = ....SHA256()` followed by `if err != nil`
ChecksumUnavailable(s) == s.err

\* The bytes that went through the tee reader and into the file.
Written(bytes, w) ==
    IF w = "ok" THEN bytes
    ELSE IF w = "partial" /\ Len(bytes) > 0 THEN SubSeq(bytes, 1, Len(bytes) - 1)
    ELSE <<>>

\* Mutant: the hasher is fed all but the last byte of the stream.
TeeHashedPrefix(bytes) ==
    IF bytes = <<>> THEN bytes ELSE SubSeq(bytes, 1, Len(bytes) - 1)

\* io.TeeReader(resp.Body, sha): every byte read from the body goes into the
\* hasher; after a write that returned nil these are all the bytes of the body.
TeeHashed(bytes) == bytes

\* toHex(sha) as the fetcher reads it: only after WriteToRepoDir returned nil
HasherSum(bytes, w) == IF w = "ok" THEN toHex(TeeHashed(bytes)) ELSE EmptyStr

\* The cache after WriteToRepoDir(repo, body, fileName): the file of that key
\* is replaced (nothing changes when the write failed before writing).  A
\* file is recorded by the artifact it holds, whether it was written
\* completely, the hex digest of its bytes (<<>> for the metalink, which is
\* never hashed) and the expected digest the fetcher holds for it.
WriteToRepoDir(d, name, fileName, artifact, sum, expected, w) ==
    IF w = "failed" THEN d
    ELSE LET key == <<name, fileName>>
             file == [artifact |-> artifact, complete |-> (w = "ok"),
                      sum |-> sum, expected |-> expected]
         IN [x \in DOMAIN d \cup {key} |-> IF x = key THEN file ELSE d[x]]

----------------------------------------------------------------------------
VARIABLES
    Repos,       \* r.Repos, the configured repositories
    idx,         \* position of the loop of Fetch in Repos
    pc,          \* where Fetch is: "Fetch" (loop head), "resolveRepomd",
                 \* "fetchPrimary", "fetchFilelists", "fetched" (end of the
                 \* loop body), "returned"
    sha256sum,   \* the expected digest of repomd.xml, <<>> if none
    repomdURLs,  \* the candidate index URLs
    k,           \* position of the loop of resolveRepomd in repomdURLs
    repomd,      \* the accepted index document, NoRepomd before
    mirror,      \* the pinned mirror, NoMirror before
    metalink,    \* the metalink document resolveMetaLink returned, NoFile before
    result,      \* what Fetch returned, Running before
    disk,        \* the cache directory: <<repository, file name>> -> file
    requests     \* the requests issued for the current repository, in order

vars == <<Repos, idx, pc, sha256sum, repomdURLs, k, repomd, mirror, metalink,
          result, disk, requests>>

Running == [kind |-> "running"]
ReturnedNil == [kind |-> "nil"]
NoRepomd == [nil |-> TRUE]
NoMirror == [nil |-> TRUE]

\* fmt.Errorf of Fetch: the stage, the repository named in the message and
\* the error of the callee it wraps
FetchError(stage, name, cause) ==
    [kind |-> "error", stage |-> stage, repo |-> name, cause |-> cause]

Init ==
    /\ Repos \in UNION {[1..n -> RepoKinds] : n \in 0..MaxRepos}
    /\ idx = 1
    /\ pc = "Fetch"
    /\ sha256sum = EmptyStr
    /\ repomdURLs = <<>>
    /\ k = 1
    /\ repomd = NoRepomd
    /\ mirror = NoMirror
    /\ metalink = NoFile
    /\ result = Running
    /\ disk = <<>>
    /\ requests = <<>>

\* Mutant: the error is kept but the loop of Fetch goes on.
ReturnAndGoOn(res) ==
    /\ result' = res
    /\ pc' = "fetched"

\* `return fmt.Errorf(...)` in Fetch
Return(res) ==
    /\ result' = res
    /\ pc' = "returned"

\* a request and what the environment answered: whether Get failed, whether
\* the body was saved, the digest the hasher holds for it (<<>> when the body
\* was not saved: the hasher is not read then), whether the saved bytes parse
Request(stage, url, cand, err, saved, sum, wellFormed) ==
    [stage |-> stage, url |-> url, cand |-> cand, err |-> err,
     saved |-> saved, sum |-> sum, wellFormed |-> wellFormed]

----------------------------------------------------------------------------
\* resolveMetaLink

\* Mutant: the protocol is not looked at.
IsAnyProtocol(u) == TRUE

\* `if u.Protocol != "https" { continue }`
IsSecure(u) == u.Protocol = "https"

\* the loop over repomod.Resources.URLs: the texts of the secure entries
SecureURLs(URLs) ==
    LET kept == SelectSeq(URLs, IsSecure) IN [i \in 1..Len(kept) |-> kept[i].Text]

\* Mutant: an empty list of secure URLs is not an error.
NoSecureURLIgnored(urls) == FALSE

\* `if len(urls) == 0`
NoSecureURL(urls) == Len(urls) = 0

MetalinkFileName == <<"metalink">>
RepomdFileName == <<"repomd.xml">>

\* Mutant: the error of WriteToRepoDir is dropped.
WriteErrorIgnored(w) == FALSE

\* `if err := r.CacheHelper.WriteToRepoDir(...); err != nil`
WriteError(w) == w # "ok"

\* CacheHelper.LoadMetaLink(repo): the metalink file of the repository is read
\* back and unmarshalled; `content` is what a complete file holds.
LoadMetaLink(d, name, content) ==
    LET key == <<name, MetalinkFileName>> IN
    IF key \notin DOMAIN d \/ ~d[key].complete \/ d[key].artifact # "metalink"
       \/ ~content.wellFormed
    THEN [err |-> TRUE, doc |-> NoFile]
    ELSE [err |-> FALSE, doc |-> content]

\* resolveMetaLink(repo) when Get answered resp and the write ended as w:
\* the error it returns ("" for nil), the metalink and the URLs it returns,
\* and the cache it leaves.
resolveMetaLink(name, resp, w, d) ==
    LET failed(cause, dd) ==
            [cause |-> cause, metalink |-> NoFile, urls |-> <<>>, disk |-> dd]
    IN
    IF resp.err THEN failed("get", d)
    ELSE LET d2 == WriteToRepoDir(d, name, MetalinkFileName, "metalink",
                                  EmptyStr, EmptyStr, w)
             loaded == LoadMetaLink(d2, name, resp.body)
             doc == loaded.doc
         IN
         IF WriteError(w) THEN failed("write", d2)
         ELSE IF loaded.err THEN failed("parse", d2)
         ELSE IF Repomod(doc) = NoFile THEN failed("norepomd", d2)
         ELSE LET urls == SecureURLs(Repomod(doc).URLs) IN
              IF NoSecureURL(urls)
              THEN [cause |-> "nohttps", metalink |-> doc, urls |-> <<>>,
                    disk |-> d2]
              ELSE [cause |-> "", metalink |-> doc, urls |-> urls, disk |-> d2]

\* Fetch, the branch of a repository with a metalink (lines 32-43), up to the
\* call of resolveRepomd.
ResolveMetaLink ==
    /\ pc = "Fetch"
    /\ idx <= Len(Repos)
    /\ Repos[idx].Metalink # EmptyStr
    /\ \E resp \in GetResponses(Repos[idx].Metalink, MetalinkBodies),
          w \in WriteOutcomes :
         LET name == RepoName(idx)
             o == resolveMetaLink(name, resp, w, disk)
             saved == ~resp.err /\ w = "ok"
             s == IF o.cause = "" THEN ChecksumSHA256(Repomod(o.metalink).Hash)
                  ELSE [err |-> TRUE, sum |-> EmptyStr]
         IN
         /\ requests' = <<Request("metalink", Repos[idx].Metalink, 0, resp.err,
                                  saved, EmptyStr, saved /\ resp.body.wellFormed)>>
         /\ disk' = o.disk
         /\ metalink' = o.metalink
         /\ repomdURLs' = o.urls
         /\ IF o.cause # ""
            THEN /\ Return(FetchError("metalink", name, o.cause))
                 /\ UNCHANGED sha256sum
            ELSE IF ChecksumUnavailable(s)
            THEN /\ Return(FetchError("sha256sum", EmptyStr, "sha256"))
                 /\ UNCHANGED sha256sum
            ELSE /\ sha256sum' = s.sum
                 /\ pc' = "resolveRepomd"
                 /\ UNCHANGED result
    /\ UNCHANGED <<Repos, idx, k, repomd, mirror>>

\* Mutant: the base URL is used as it is written.
RepomdURLUntrimmed(baseurl) == baseurl \o RepomdPath

\* strings.TrimSuffix(repo.Baseurl, "/") + "/repodata/repomd.xml"
RepomdURLOfBaseurl(baseurl) == TrimSuffix(baseurl, <<"/">>) \o RepomdPath

\* Fetch, the branch of a repository without a metalink (lines 44-46),
\* up to the call of resolveRepomd.
UseBaseurl ==
    /\ pc = "Fetch"
    /\ idx <= Len(Repos)
    /\ Repos[idx].Metalink = EmptyStr
    /\ repomdURLs' = IF Repos[idx].Baseurl # EmptyStr
                     THEN <<RepomdURLOfBaseurl(Repos[idx].Baseurl)>>
                     ELSE <<>>
    /\ pc' = "resolveRepomd"
    /\ UNCHANGED <<Repos, idx, sha256sum, k, repomd, mirror, metalink, result,
                   disk, requests>>

----------------------------------------------------------------------------
\* resolveRepomd

\* Mutant: the digest of the index is never compared.
IndexChecksumIgnored(expected, actual) == FALSE

\* `sha256sum != "" && toHex(sha) != sha256sum`
IndexChecksumMismatch(expected, actual) == expected # EmptyStr /\ actual # expected

\* Mutant: a digest mismatch is treated like a mirror failure.
OnChecksumMismatchContinue == "continue"

\* what the loop does when the digest differs: `return nil, nil, fmt.Errorf(...)`
OnChecksumMismatch == "return"

\* Mutant: the loop tries the same candidate again.
SameCandidate(i) == i

\* `continue`: the loop goes on with the next element of repomdURLs
NextCandidate(i) == i + 1

\* Mutant: an index that does not decode ends resolveRepomd with an error.
OnDecodeErrorReturn == "return"

\* what the loop does when repomd.xml does not decode: `continue`
OnDecodeError == "continue"

\* mirror, err = url.Parse(u); mirror.Path = strings.TrimSuffix(path.Dir(mirror.Path), "repodata")
MirrorOf(u) ==
    LET m == UrlParse(u) IN
    [m EXCEPT !.Path = TrimSuffix(PathDir(m.Path), <<"repodata">>)]

\* Mutant: the saved index is unmarshalled first, its digest compared after.
UnmarshalThenVerify(expected, sum, wellFormed) ==
    IF ~wellFormed THEN "parse"
    ELSE IF IndexChecksumMismatch(expected, sum) THEN "checksum"
    ELSE ""

\* resolveRepomd after the index was saved: the digest comparison (line 123),
\* then UnmarshalFromRepoDir (lines 127-132); the failure found, "" if none
VerifyThenUnmarshal(expected, sum, wellFormed) ==
    IF IndexChecksumMismatch(expected, sum) THEN "checksum"
    ELSE IF ~wellFormed THEN "parse"
    ELSE ""

\* One iteration of the loop of resolveRepomd over candidate u, when Get
\* answered resp and the write ended as w: what the loop does next
\* ("continue", "return" with an error, "break" with the index accepted),
\* the cache it leaves and the request it made.
tryCandidate(name, u, cand, expected, resp, w, d) ==
    IF resp.err
    THEN [next |-> "continue", cause |-> "get", repomd |-> NoRepomd, disk |-> d,
          request |-> Request("repomd", u, cand, TRUE, FALSE, EmptyStr, FALSE)]
    ELSE LET bytes == Written(resp.body.bytes, w)
             sum == HasherSum(resp.body.bytes, w)
             d2 == WriteToRepoDir(d, name, RepomdFileName, "repomd", toHex(bytes),
                                  expected, w)
             req == Request("repomd", u, cand, FALSE, w = "ok", sum,
                            w = "ok" /\ resp.body.wellFormed)
         IN
         IF w # "ok"
         THEN [next |-> "continue", cause |-> "write", repomd |-> NoRepomd,
               disk |-> d2, request |-> req]
         ELSE IF VerifyThenUnmarshal(expected, sum, resp.body.wellFormed) = "checksum"
         THEN [next |-> OnChecksumMismatch, cause |-> "checksum", repomd |-> NoRepomd,
               disk |-> d2, request |-> req]
         ELSE IF VerifyThenUnmarshal(expected, sum, resp.body.wellFormed) = "parse"
         THEN [next |-> OnDecodeError, cause |-> "parse", repomd |-> NoRepomd,
               disk |-> d2, request |-> req]
         ELSE [next |-> "break", cause |-> "", repomd |-> [Data |-> resp.body.Data],
               disk |-> d2, request |-> req]

\* Mutant: Fetch goes on with the filelists file.
AfterResolveRepomdFilelists == "fetchFilelists"

\* what Fetch calls after resolveRepomd returned without error:
\* r.fetchFile(api.PrimaryFileType, ...)
AfterResolveRepomd == "fetchPrimary"

\* One iteration of the loop of resolveRepomd (lines 108-139); on break, the
\* rest of the function (lines 141-145).
TryMirror ==
    /\ pc = "resolveRepomd"
    /\ k <= Len(repomdURLs)
    /\ \E resp \in GetResponses(repomdURLs[k], RepomdBodies), w \in WriteOutcomes :
         LET o == tryCandidate(RepoName(idx), repomdURLs[k], k, sha256sum, resp, w, disk)
         IN
         /\ requests' = Append(requests, o.request)
         /\ disk' = o.disk
         /\ CASE o.next = "continue" ->
                   /\ k' = NextCandidate(k)
                   /\ UNCHANGED <<pc, result, repomd, mirror>>
              [] o.next = "return" ->
                   /\ Return(FetchError("repomd", RepoName(idx), o.cause))
                   /\ UNCHANGED <<k, repomd, mirror>>
              [] o.next = "break" ->
                   /\ repomd' = o.repomd
                   /\ mirror' = MirrorOf(repomdURLs[k])
                   /\ pc' = AfterResolveRepomd
                   /\ UNCHANGED <<k, result>>
    /\ UNCHANGED <<Repos, idx, sha256sum, repomdURLs, metalink>>

\* Mutant: the check after the loop is missing.
LoopNeverFailed(doc) == FALSE

\* `if repomd == nil` after the loop
LoopFailed(doc) == doc = NoRepomd

\* The loop of resolveRepomd ends without a break (lines 141-143): no
\* candidate is left and repomd is nil.  Were the check to pass, line 144
\* would dereference the nil mirror and the process would panic.
MirrorsExhausted ==
    /\ pc = "resolveRepomd"
    /\ k > Len(repomdURLs)
    /\ IF LoopFailed(repomd)
       THEN Return(FetchError("repomd", RepoName(idx), "exhausted"))
       ELSE /\ pc' = "panicked"
            /\ UNCHANGED result
    /\ UNCHANGED <<Repos, idx, sha256sum, repomdURLs, k, repomd, mirror, metalink,
                   disk, requests>>

----------------------------------------------------------------------------
\* fetchFile

\* Mutant: the href is requested as it stands, never resolved against the mirror.
FileURLUnresolved(m, href) == href

\* the URL fetchFile requests (lines 157-163): the href itself when it is an
\* absolute path, else the mirror with the href joined to its path
FileURL(m, href) ==
    IF PathIsAbs(href) THEN href
    ELSE UrlString([m EXCEPT !.Path = PathJoin(m.Path, href)])

\* Mutant: the digest of a typed file is never compared.
FileChecksumIgnored(expected, actual) == FALSE

\* `sha256sum != toHex(sha)`
FileChecksumMismatch(expected, actual) == expected # actual

\* fetchFile up to the request: the error it returns without requesting
\* anything ("" if it goes on)
fileLookup(doc, fileType) ==
    LET file == RepomdFile(doc, fileType) IN
    IF file = NoFile THEN "nofile"
    ELSE IF file.Location.Href = EmptyStr THEN "nohref"
    ELSE ""

\* fetchFile from the request on, when Get answered resp and the write ended
\* as w: the error it returns ("" for nil), the cache it leaves, the request.
download(name, fileType, file, m, resp, w, d) ==
    LET fileURL == FileURL(m, file.Location.Href)
        fileName == FilepathBase(file.Location.Href)
        s == ChecksumSHA256(file.Checksum)
    IN
    IF resp.err
    THEN [cause |-> "get", disk |-> d,
          request |-> Request(fileType, fileURL, 0, TRUE, FALSE, EmptyStr, FALSE)]
    ELSE LET bytes == Written(resp.body, w)
             sum == HasherSum(resp.body, w)
             d2 == WriteToRepoDir(d, name, fileName, fileType, toHex(bytes), s.sum, w)
             req == Request(fileType, fileURL, 0, FALSE, w = "ok", sum, w = "ok")
         IN
         [cause |-> IF w # "ok" THEN "write"
                    ELSE IF ChecksumUnavailable(s) THEN "sha256"
                    ELSE IF FileChecksumMismatch(s.sum, sum) THEN "checksum"
                    ELSE "",
          disk |-> d2, request |-> req]

\* r.fetchFile(fileType, ...) and the `if err != nil` of Fetch after it.
FetchFile(fileType, at, after) ==
    /\ pc = at
    /\ LET name == RepoName(idx)
           early == fileLookup(repomd, fileType)
           file == RepomdFile(repomd, fileType)
       IN
       \/ /\ early # ""
          /\ Return(FetchError(fileType, name, early))
          /\ UNCHANGED <<disk, requests>>
       \/ /\ early = ""
          /\ \E resp \in GetResponses(FileURL(mirror, file.Location.Href), TypedBytes),
                w \in WriteOutcomes :
               LET o == download(name, fileType, file, mirror, resp, w, disk) IN
               /\ requests' = Append(requests, o.request)
               /\ disk' = o.disk
               /\ IF o.cause # ""
                  THEN Return(FetchError(fileType, name, o.cause))
                  ELSE /\ pc' = after
                       /\ UNCHANGED result
    /\ UNCHANGED <<Repos, idx, sha256sum, repomdURLs, k, repomd, mirror, metalink>>

FetchPrimary == FetchFile(PrimaryFileType, "fetchPrimary", "fetchFilelists")

FetchFilelists == FetchFile(FilelistsFileType, "fetchFilelists", "fetched")

\* Mutant: the loop of Fetch takes the same repository again.
SameRepoIndex(i) == i

\* `for _, repo := range r.Repos`: the next element
NextRepoIndex(i) == i + 1

\* The body of the loop of Fetch is over for this repository: `range` goes to
\* the next one, whose iteration starts with fresh locals (lines 31-33, 35, 47).
NextRepo ==
    /\ pc = "fetched"
    /\ idx' = NextRepoIndex(idx)
    /\ pc' = "Fetch"
    /\ sha256sum' = EmptyStr
    /\ repomdURLs' = <<>>
    /\ k' = 1
    /\ repomd' = NoRepomd
    /\ mirror' = NoMirror
    /\ metalink' = NoFile
    /\ requests' = <<>>
    /\ UNCHANGED <<Repos, result, disk>>

\* The loop of Fetch is over: `return nil`.
ReturnNil ==
    /\ pc = "Fetch"
    /\ idx > Len(Repos)
    /\ result' = ReturnedNil
    /\ pc' = "returned"
    /\ UNCHANGED <<Repos, idx, sha256sum, repomdURLs, k, repomd, mirror, metalink,
                   disk, requests>>

Next ==
    \/ ResolveMetaLink
    \/ UseBaseurl
    \/ TryMirror
    \/ MirrorsExhausted
    \/ FetchPrimary
    \/ FetchFilelists
    \/ NextRepo
    \/ ReturnNil

Spec == Init /\ [][Next]_vars

----------------------------------------------------------------------------
\* What the log of requests says about an index candidate.

IndexRequests == {i \in 1..Len(requests) : requests[i].stage = "repomd"}
TypedRequests(fileType) == {i \in 1..Len(requests) : requests[i].stage = fileType}

\* the body was downloaded and saved, and its digest is not the recorded one
Mismatching(r) ==
    /\ r.stage = "repomd" /\ ~r.err /\ r.saved
    /\ sha256sum # EmptyStr /\ r.sum # sha256sum

NetworkFailure(r) == r.stage = "repomd" /\ r.err

SaveFailure(r) == r.stage = "repomd" /\ ~r.err /\ ~r.saved

\* the body was saved, passed the digest check if there was one, and does not decode
ParseFailure(r) ==
    /\ r.stage = "repomd" /\ ~r.err /\ r.saved /\ ~Mismatching(r)
    /\ ~r.wellFormed

\* the body was saved, passed the digest check if there was one, and decoded
Accepted(r) ==
    /\ r.stage = "repomd" /\ ~r.err /\ r.saved /\ ~Mismatching(r)
    /\ r.wellFormed

----------------------------------------------------------------------------
\* C1: when an expected index checksum was recorded and the repomd.xml saved
\* from a candidate has another digest, resolveRepomd returns a checksum error
\* at once: the repository is failed at the index stage and that request is
\* the last one ever made, whatever the position of the candidate.
C1_MismatchAborts ==
    \A i \in 1..Len(requests) :
        Mismatching(requests[i]) =>
            /\ i = Len(requests)
            /\ pc = "returned"
            /\ result = FetchError("repomd", RepoName(idx), "checksum")

\* two secure mirrors, the first one mismatching
C1_Witness ==
    /\ Len(repomdURLs) = 2
    /\ repomdURLs[1] # repomdURLs[2]
    /\ \E i \in 1..Len(requests) :
           Mismatching(requests[i]) /\ requests[i].cand = 1
    /\ result.kind = "error"

\* C2: a network failure or a parse failure of a candidate that is not the
\* last one does not fail the repository: the next request, if any, goes to
\* the next candidate of the list, until then the loop stands at that next
\* candidate with Fetch still running; and a candidate that is accepted
\* resolves the index (the document is held and its mirror is pinned), with
\* or without a recorded checksum.
C2_FailureAdvances ==
    \A i \in 1..Len(requests) :
        LET r == requests[i] IN
        /\ ((NetworkFailure(r) \/ ParseFailure(r)) /\ r.cand < Len(repomdURLs)) =>
              IF i = Len(requests)
              THEN pc = "resolveRepomd" /\ k = r.cand + 1 /\ result = Running
              ELSE /\ requests[i + 1].stage = "repomd"
                   /\ requests[i + 1].cand = r.cand + 1
                   /\ requests[i + 1].url = repomdURLs[r.cand + 1]
        /\ Accepted(r) =>
              /\ repomd # NoRepomd
              /\ mirror # NoMirror
              /\ mirror.Host = UrlParse(r.url).Host
              /\ ~(result.kind = "error" /\ result.stage = "repomd")

\* with a recorded checksum, the first candidate fails on the network and the
\* second one resolves the index
C2_Witness ==
    /\ sha256sum # EmptyStr
    /\ Len(requests) >= 3
    /\ NetworkFailure(requests[2]) /\ requests[2].cand = 1
    /\ Accepted(requests[3]) /\ requests[3].cand = 2
    /\ repomd # NoRepomd

\* C3: every request for a typed file whose location is relative goes to the
\* mirror pinned by the accepted index fetch: exactly one candidate of this
\* repository was accepted, it was requested before, and the typed file's URL
\* has its scheme and host.
C3_TypedFilesFromPinnedMirror ==
    \A i \in 1..Len(requests) :
        LET r == requests[i] IN
        (/\ r.stage \in {PrimaryFileType, FilelistsFileType}
         /\ ~PathIsAbs(RepomdFile(repomd, r.stage).Location.Href)) =>
            /\ \E j \in 1..(i - 1) :
                  /\ Accepted(requests[j])
                  /\ UrlParse(r.url).Scheme = UrlParse(requests[j].url).Scheme
                  /\ UrlParse(r.url).Host = UrlParse(requests[j].url).Host
            /\ \A j \in IndexRequests :
                  ~Accepted(requests[j]) =>
                      \/ UrlParse(requests[j].url).Host # UrlParse(r.url).Host
                      \/ \E a \in IndexRequests :
                            /\ Accepted(requests[a])
                            /\ requests[a].url = requests[j].url

\* the first mirror was rejected, the second one accepted, and a typed file
\* was requested
C3_Witness ==
    /\ Len(repomdURLs) = 2
    /\ \E i, j \in 1..Len(requests) :
           /\ requests[i].stage = "repomd" /\ requests[i].cand = 1
           /\ requests[i].url = MirrorURL1
           /\ Accepted(requests[j]) /\ requests[j].url = MirrorURL2
    /\ TypedRequests(FilelistsFileType) # {}

\* the i-th repository reached Fetched: its last stage left a verified file
Fetched(i) ==
    \E key \in DOMAIN disk :
        /\ key[1] = RepoName(i)
        /\ disk[key].artifact = FilelistsFileType
        /\ disk[key].complete
        /\ disk[key].sum = disk[key].expected

\* C4: Fetch fails fast.  Once Fetch holds an error nothing is requested and
\* nothing is written any more; the cache never holds a file of a repository
\* after the current one; the error names no repository but the current one;
\* and Fetch returns nil only when every repository reached Fetched.
C4_FailFast ==
    /\ [][result.kind = "error" =>
            /\ requests' = requests
            /\ disk' = disk
            /\ result' = result
            /\ idx' = idx]_vars
    /\ [](\A key \in DOMAIN disk :
             \E j \in 1..idx : j <= Len(Repos) /\ key[1] = RepoName(j))
    /\ [](result.kind = "error" =>
             /\ idx <= Len(Repos)
             /\ result.repo \in {RepoName(idx), EmptyStr})
    /\ [](result = ReturnedNil => \A i \in 1..Len(Repos) : Fetched(i))

\* the first of two repositories failed
C4_Witness ==
    /\ Len(Repos) = 2
    /\ idx = 1
    /\ result.kind = "error"
    /\ pc = "returned"

----------------------------------------------------------------------------
RECURSIVE HttpsTexts(_)
\* the texts of the entries tagged https, in document order
HttpsTexts(URLs) ==
    IF URLs = <<>> THEN <<>>
    ELSE (IF Head(URLs).Protocol = "https" THEN <<Head(URLs).Text>> ELSE <<>>)
         \o HttpsTexts(Tail(URLs))

\* the number of entries tagged https among the first n
HttpsUpTo(URLs, n) == Cardinality({m \in 1..n : URLs[m].Protocol = "https"})

\* C5: the candidate list resolveMetaLink derives from a metalink is exactly
\* the texts of the repomd URL entries tagged https, in document order, and
\* every index request that follows goes to the text of such an entry: the
\* n-th candidate requested is the n-th https entry of the document.
C5_CandidatesAreSecureEntries ==
    metalink # NoFile =>
        LET URLs == Repomod(metalink).URLs IN
        /\ repomdURLs = HttpsTexts(URLs)
        /\ \A i \in IndexRequests :
              \E n \in 1..Len(URLs) :
                  /\ URLs[n].Protocol = "https"
                  /\ URLs[n].Text = requests[i].url
                  /\ HttpsUpTo(URLs, n) = requests[i].cand

\* a document whose first entry is plain http and whose second is https: the
\* only request goes to the second
C5_Witness ==
    /\ metalink # NoFile
    /\ Len(Repomod(metalink).URLs) = 2
    /\ Repomod(metalink).URLs[1] = [Protocol |-> "http", Text |-> MirrorURL1]
    /\ Repomod(metalink).URLs[2] = [Protocol |-> "https", Text |-> MirrorURL2]
    /\ IndexRequests # {}
    /\ \A i \in IndexRequests : requests[i].url = MirrorURL2

\* C6: a metalink whose repomd entry lists no https URL fails the repository
\* in resolveMetaLink, and no index request is made for it.
C6_NoSecureMirrorFails ==
    (/\ metalink # NoFile
     /\ \A n \in 1..Len(Repomod(metalink).URLs) :
            Repomod(metalink).URLs[n].Protocol # "https") =>
        /\ pc = "returned"
        /\ result = FetchError("metalink", RepoName(idx), "nohttps")
        /\ repomdURLs = <<>>
        /\ IndexRequests = {}

\* a document with two entries, none of them https
C6_Witness ==
    /\ metalink # NoFile
    /\ Len(Repomod(metalink).URLs) = 2
    /\ \A n \in 1..2 : Repomod(metalink).URLs[n].Protocol = "http"
    /\ result.kind = "error"

\* C7: the candidates are requested one after the other in list order, each
\* position once; a candidate is requested only after every earlier one
\* failed (network, save or parse); an accepted candidate is the last one
\* requested.
C7_SequentialFirstSuccessWins ==
    \A i \in IndexRequests :
        LET r == requests[i]
            earlier == {j \in IndexRequests : j < i}
        IN
        /\ r.cand = Cardinality(earlier) + 1
        /\ r.cand <= Len(repomdURLs)
        /\ r.url = repomdURLs[r.cand]
        /\ \A j \in earlier :
              \/ NetworkFailure(requests[j])
              \/ SaveFailure(requests[j])
              \/ ParseFailure(requests[j])
        /\ Accepted(r) => \A j \in IndexRequests : j <= i

\* the first candidate could not be saved, the second was accepted and the
\* typed files were requested after it
C7_Witness ==
    /\ Len(repomdURLs) = 2
    /\ \E i, j \in IndexRequests :
           /\ requests[i].cand = 1 /\ SaveFailure(requests[i])
           /\ requests[j].cand = 2 /\ Accepted(requests[j])
    /\ TypedRequests(PrimaryFileType) # {}

IndexFailure(r) == NetworkFailure(r) \/ SaveFailure(r) \/ ParseFailure(r)

\* C8: when the loop of resolveRepomd is over without an accepted index
\* (every candidate failed, or there was none), the only step is the return
\* of the all-mirrors error, which fails the repository; while the loop runs
\* and after that error no typed file was requested, and the error is only
\* returned after each candidate was requested once and failed.
C8_ExhaustedFails ==
    /\ [][(pc = "resolveRepomd" /\ k > Len(repomdURLs)) =>
            /\ pc' = "returned"
            /\ result' = FetchError("repomd", RepoName(idx), "exhausted")
            /\ requests' = requests]_vars
    /\ [](pc = "resolveRepomd" =>
            /\ k = Cardinality(IndexRequests) + 1
            /\ \A i \in IndexRequests : IndexFailure(requests[i])
            /\ repomd = NoRepomd
            /\ TypedRequests(PrimaryFileType) = {}
            /\ TypedRequests(FilelistsFileType) = {})
    /\ []((result.kind = "error" /\ result.cause = "exhausted") =>
            /\ result.stage = "repomd"
            /\ Cardinality(IndexRequests) = Len(repomdURLs)
            /\ \A i \in IndexRequests : IndexFailure(requests[i])
            /\ repomd = NoRepomd
            /\ TypedRequests(PrimaryFileType) = {}
            /\ TypedRequests(FilelistsFileType) = {})

\* two candidates, the first did not decode, the second failed on the network
C8_Witness ==
    /\ result = FetchError("repomd", RepoName(idx), "exhausted")
    /\ Len(repomdURLs) = 2
    /\ \E i, j \in IndexRequests :
           /\ requests[i].cand = 1 /\ ParseFailure(requests[i])
           /\ requests[j].cand = 2 /\ NetworkFailure(requests[j])

\* the entry of the accepted index for a file type
EntryOf(fileType) == IF repomd = NoRepomd THEN NoFile ELSE RepomdFile(repomd, fileType)

\* the download of a typed file failed, or its digest is not the entry's
TypedFailure(r, entry) ==
    \/ r.err
    \/ ~r.saved
    \/ entry.Checksum.Type # "sha256"
    \/ r.sum # entry.Checksum.Text

\* C9: a typed file is requested at most once.  When the index has no entry
\* for the type or the entry has no href, the file is never requested and
\* Fetch never gets past that stage; when the request fails or the digest of
\* the file differs, that request is the last one and Fetch returned the
\* error of that stage for this repository.
C9_TypedFileErrorsAreHard ==
    \A t \in {PrimaryFileType, FilelistsFileType} :
        LET reqs == TypedRequests(t)
            entry == EntryOf(t)
            unusable == entry = NoFile \/ entry.Location.Href = EmptyStr
            before == IF t = PrimaryFileType THEN {"fetchPrimary"}
                      ELSE {"fetchPrimary", "fetchFilelists"}
        IN
        /\ Cardinality(reqs) <= 1
        /\ (repomd # NoRepomd /\ unusable) =>
              /\ reqs = {}
              /\ pc \in before \cup {"returned"}
              /\ pc = "returned" =>
                    /\ result.kind = "error"
                    /\ result.repo = RepoName(idx)
                    /\ \/ result.stage = t /\ result.cause \in {"nofile", "nohref"}
                       \/ result.stage = PrimaryFileType /\ t = FilelistsFileType
        /\ \A i \in reqs :
              TypedFailure(requests[i], entry) =>
                  /\ i = Len(requests)
                  /\ pc = "returned"
                  /\ result.kind = "error"
                  /\ result.stage = t
                  /\ result.repo = RepoName(idx)
                  /\ result.cause \in {"get", "write", "sha256", "checksum"}

\* the primary file was saved with a digest that is not the entry's
C9_Witness ==
    /\ \E i \in TypedRequests(PrimaryFileType) :
           /\ requests[i].saved
           /\ EntryOf(PrimaryFileType).Checksum.Type = "sha256"
           /\ requests[i].sum # EntryOf(PrimaryFileType).Checksum.Text
    /\ result = FetchError(PrimaryFileType, RepoName(idx), "checksum")

MetadataArtifacts == {"repomd", PrimaryFileType, FilelistsFileType}

\* C10 as claimed: whenever Fetch has returned, every metadata file of the
\* cache is complete and has the digest expected for it.
C10_AllCachedFilesVerified ==
    pc = "returned" =>
        \A key \in DOMAIN disk :
            disk[key].artifact \in MetadataArtifacts =>
                /\ disk[key].complete
                /\ disk[key].sum = disk[key].expected

\* the i-th repository is through all its stages
Through(i) == i < idx \/ (i = idx /\ pc = "fetched")

\* C10 as amended: in the cache directory of a repository that reached
\* Fetched every metadata file is completely written; a typed file has the
\* digest of its index entry, and repomd.xml has the digest the metalink
\* recorded when it recorded one.
C10_FetchedRepositoriesVerified ==
    \A key \in DOMAIN disk :
        (\E i \in 1..Len(Repos) : key[1] = RepoName(i) /\ Through(i)) =>
            LET f == disk[key] IN
            /\ f.artifact \in {PrimaryFileType, FilelistsFileType} =>
                  /\ f.complete
                  /\ f.expected # EmptyStr
                  /\ f.sum = f.expected
            /\ f.artifact = "repomd" =>
                  /\ f.complete
                  /\ f.expected # EmptyStr => f.sum = f.expected

\* a repository with a recorded index checksum reached Fetched after its
\* first mirror failed to save the index
C10_Witness ==
    /\ pc = "fetched"
    /\ sha256sum # EmptyStr
    /\ \E i \in IndexRequests : SaveFailure(requests[i])
    /\ \E key \in DOMAIN disk :
           /\ key[1] = RepoName(idx)
           /\ disk[key].artifact = "repomd"
           /\ disk[key].expected = sha256sum
    /\ Fetched(idx)

----------------------------------------------------------------------------
LastRequest == requests[Len(requests)]

\* the key WriteToRepoDir is called with for the body of request r
KeyOf(r) ==
    <<RepoName(idx),
      CASE r.stage = "metalink" -> MetalinkFileName
        [] r.stage = "repomd" -> RepomdFileName
        [] OTHER -> FilepathBase(EntryOf(r.stage).Location.Href)>>

\* the cache file the last request wrote to
LastKey == KeyOf(LastRequest)

\* Fetch went on, or returned a checksum error, on the strength of a digest
\* comparison of the body of the last request
Compared ==
    /\ requests # <<>>
    /\ \/ result.kind = "error" /\ result.cause = "checksum"
       \/ LastRequest.stage = "repomd" /\ repomd # NoRepomd /\ sha256sum # EmptyStr
       \/ LastRequest.stage = PrimaryFileType /\ pc = "fetchFilelists"
       \/ LastRequest.stage = FilelistsFileType /\ pc = "fetched"

\* C11: whenever resolveRepomd or fetchFile compared a digest, the body had
\* been read to its end and written completely to its cache file before, and
\* the digest compared is the digest of exactly the bytes of that file; a
\* body that was not saved completely is never compared.
C11_ComparedAfterCompleteWrite ==
    /\ Compared =>
          /\ LastRequest.saved
          /\ LastKey \in DOMAIN disk
          /\ disk[LastKey].complete
          /\ disk[LastKey].artifact = LastRequest.stage
          /\ disk[LastKey].sum = LastRequest.sum
    /\ \A i \in 1..Len(requests) :
          (requests[i].stage \in MetadataArtifacts /\ ~requests[i].saved) =>
              /\ requests[i].sum = EmptyStr
              /\ ~Accepted(requests[i])
              /\ requests[i].stage # "repomd" =>
                    /\ i = Len(requests)
                    /\ result.kind = "error"
                    /\ result.cause \in {"get", "write"}

\* a primary file was compared and found to differ, after a mirror before
\* had left a partial repomd.xml
C11_Witness ==
    /\ Compared
    /\ LastRequest.stage = PrimaryFileType
    /\ result.kind = "error" /\ result.cause = "checksum"
    /\ \E i \in IndexRequests : SaveFailure(requests[i])

----------------------------------------------------------------------------
\* What is left of the current iteration of the loop of Fetch: the steps of
\* the loop of resolveRepomd still to take, then the two typed files
StepsLeft ==
    CASE pc = "Fetch" -> MaxURLs + 5
      [] pc = "resolveRepomd" -> 4 + (Len(repomdURLs) + 1 - k)
      [] pc = "fetchPrimary" -> 3
      [] pc = "fetchFilelists" -> 2
      [] pc = "fetched" -> 1
      [] OTHER -> 0

\* A bound on the steps Fetch still takes: the repositories `range` has not
\* reached, each with its metalink, its candidates and its typed files
Rank ==
    IF pc = "returned" THEN 0
    ELSE (Len(Repos) + 1 - idx) * (MaxURLs + 6) + StepsLeft

RequestsOf(stage) == {i \in 1..Len(requests) : requests[i].stage = stage}

\* The guard of one of the steps of Fetch holds: the loop head has a
\* repository to take or returns nil, the loop of resolveRepomd has a
\* candidate to try or is over with repomd nil, fetchFile has an index and a
\* mirror to work with, the end of the loop body goes to the loop head.
CanStep ==
    \/ pc = "Fetch" /\ idx \in 1..(Len(Repos) + 1)
    \/ pc = "resolveRepomd" /\ idx \in 1..Len(Repos)
                           /\ (k <= Len(repomdURLs) \/ LoopFailed(repomd))
    \/ pc \in {"fetchPrimary", "fetchFilelists"} /\ idx \in 1..Len(Repos)
                           /\ repomd # NoRepomd /\ mirror # NoMirror
    \/ pc = "fetched"

\* C12: Fetch terminates (every step of Fetch lowers a natural number, and
\* Fetch can take a step as long as it has not returned), and for each
\* repository it issues at most one metalink request, at most one request per
\* candidate index URL and at most one request per typed file type: with k
\* candidates, at most 1 + k + 2 requests.
C12_TerminatesWithBoundedRequests ==
    /\ [][Rank' < Rank]_vars
    /\ [](/\ Rank \in Nat
          /\ pc # "returned" => CanStep
          /\ Cardinality(RequestsOf("metalink")) <= 1
          /\ \A c \in 1..Len(repomdURLs) :
                Cardinality({i \in IndexRequests : requests[i].cand = c}) <= 1
          /\ \A i \in IndexRequests : requests[i].cand \in 1..Len(repomdURLs)
          /\ Cardinality(RequestsOf(PrimaryFileType)) <= 1
          /\ Cardinality(RequestsOf(FilelistsFileType)) <= 1
          /\ Len(requests) <= 1 + Len(repomdURLs) + 2)

\* the second repository is done after the most requests a repository with
\* MaxURLs candidates can have
C12_Witness ==
    /\ idx = 2
    /\ pc = "fetched"
    /\ Len(repomdURLs) = MaxURLs
    /\ Len(requests) = 1 + MaxURLs + 2

----------------------------------------------------------------------------
\* C13: the artifacts of a repository that were persisted (the metalink,
\* repomd.xml, the primary file, the filelists file) were written under
\* pairwise distinct (repository, file name) keys.
C13_DistinctArtifactsDistinctKeys ==
    \A i, j \in 1..Len(requests) :
        (/\ requests[i].saved
         /\ requests[j].saved
         /\ requests[i].stage # requests[j].stage)
        => KeyOf(requests[i]) # KeyOf(requests[j])

----------------------------------------------------------------------------
\* the error of the Start stage that the metalink request r ended in, "" if
\* none of the four
StartFailure(r) ==
    IF r.err THEN "get"
    ELSE IF ~r.saved THEN "write"
    ELSE IF ~r.wellFormed THEN "parse"
    ELSE IF metalink = NoFile THEN "norepomd"
    ELSE ""

\* C14: for a repository with a metalink (with or without a base URL), a
\* metalink request that failed, a metalink that was not saved, that does not
\* parse or that has no repomd.xml entry ends Fetch with a metalink error
\* naming that cause, with no candidate and no index request, the base URL
\* never being requested; a metalink was parsed only when its complete copy
\* is in the cache.
C14_StartFailureIsFinal ==
    (idx <= Len(Repos) /\ Repos[idx].Metalink # EmptyStr /\ requests # <<>>) =>
        LET r == requests[1] IN
        /\ r.stage = "metalink"
        /\ r.url = Repos[idx].Metalink
        /\ \A i \in IndexRequests :
              requests[i].url # RepomdURLOfBaseurl(Repos[idx].Baseurl)
        /\ StartFailure(r) # "" =>
              /\ pc = "returned"
              /\ result = FetchError("metalink", RepoName(idx), StartFailure(r))
              /\ Len(requests) = 1
              /\ repomdURLs = <<>>
              /\ repomd = NoRepomd
        /\ metalink # NoFile =>
              /\ r.saved
              /\ KeyOf(r) \in DOMAIN disk
              /\ disk[KeyOf(r)].complete
              /\ disk[KeyOf(r)].artifact = "metalink"

\* the second repository has a metalink and a base URL; its metalink was
\* saved and does not parse
C14_Witness ==
    /\ idx = 2
    /\ Len(Repos) = 2
    /\ Repos[idx].Metalink # EmptyStr
    /\ Repos[idx].Baseurl # EmptyStr
    /\ requests # <<>>
    /\ StartFailure(requests[1]) = "parse"
    /\ KeyOf(requests[1]) \in DOMAIN disk
    /\ pc = "returned"

----------------------------------------------------------------------------
\* an index location that is absolute: an absolute path or a full URL
IsAbsoluteLocation(href) ==
    PathIsAbs(href) \/ (href # <<>> /\ href[1] \in Schemes)

\* the base of the mirror whose index URL is u: u with the trailing
\* repodata/repomd.xml of its path removed
IndexBase(u) ==
    LET m == UrlParse(u) IN
    [m EXCEPT !.Path = TrimSuffix(m.Path, <<"repodata", "/", "repomd.xml">>)]

\* C15: a typed file whose location is relative is requested at the location
\* resolved against the base path of the mirror whose index was accepted; a
\* typed file whose location is absolute (an absolute path or a full URL) is
\* requested at exactly that location.
C15_LocationsResolved ==
    \A i \in 1..Len(requests), j \in IndexRequests :
        LET r == requests[i] IN
        (r.stage \in {PrimaryFileType, FilelistsFileType} /\ Accepted(requests[j])) =>
            LET href == EntryOf(r.stage).Location.Href
                base == IndexBase(requests[j].url)
            IN
            r.url = IF IsAbsoluteLocation(href) THEN href
                    ELSE UrlString([base EXCEPT !.Path = PathJoin(base.Path, href)])

----------------------------------------------------------------------------
\* C16: every error Fetch returns names the repository that was being
\* fetched and the stage that failed.
C16_ErrorsNameRepositoryAndStage ==
    result.kind = "error" =>
        /\ result.repo = RepoName(idx)
        /\ result.stage \in {"metalink", "sha256sum", "repomd",
                             PrimaryFileType, FilelistsFileType}

----------------------------------------------------------------------------
\* the metalink's hash of repomd.xml is not a sha256 digest
IndexSumUnknown ==
    /\ metalink # NoFile
    /\ Repomod(metalink) # NoFile
    /\ ChecksumSHA256(Repomod(metalink).Hash).err

\* the index entry of the type has a checksum that is not a sha256 digest
TypedSumUnknown(fileType) ==
    /\ EntryOf(fileType) # NoFile
    /\ ChecksumSHA256(EntryOf(fileType).Checksum).err

\* C17: a checksum of an unknown algorithm is a hard error.  A metalink whose
\* hash of repomd.xml is not sha256 ends Fetch before any index request; once
\* an index is requested for a repository with a metalink, the expected
\* digest is the metalink's sha256.  A typed file whose entry has no sha256
\* checksum ends Fetch at its stage (with the checksum error once the file is
\* saved) and the repository does not get past it; a repository that reached
\* Fetched has sha256 checksums on both entries.
C17_UnknownAlgorithmIsHardError ==
    /\ IndexSumUnknown =>
          /\ pc = "returned"
          /\ result.kind = "error"
          /\ result.stage \in {"metalink", "sha256sum"}
          /\ IndexRequests = {}
          /\ repomd = NoRepomd
    /\ (metalink # NoFile /\ IndexRequests # {}) =>
          /\ Repomod(metalink).Hash.Type = "sha256"
          /\ sha256sum = Repomod(metalink).Hash.Text
          /\ sha256sum # EmptyStr
    /\ \A t \in {PrimaryFileType, FilelistsFileType} :
          TypedSumUnknown(t) =>
              /\ pc # "fetched"
              /\ t = PrimaryFileType => pc # "fetchFilelists"
              /\ \A i \in TypedRequests(t) :
                    /\ i = Len(requests)
                    /\ pc = "returned"
                    /\ result.kind = "error"
                    /\ result.stage = t
                    /\ requests[i].saved => result.cause = "sha256"
    /\ pc = "fetched" =>
          /\ ~IndexSumUnknown
          /\ ~TypedSumUnknown(PrimaryFileType)
          /\ ~TypedSumUnknown(FilelistsFileType)

\* an index was accepted whose primary entry states an md5 checksum; the
\* primary file was downloaded and saved, and Fetch returned the error of
\* the checksum accessor
C17_Witness ==
    /\ TypedSumUnknown(PrimaryFileType)
    /\ \E i \in TypedRequests(PrimaryFileType) : requests[i].saved
    /\ result.kind = "error"
    /\ result.cause = "sha256"

----------------------------------------------------------------------------
\* the repository being fetched has no metalink but a base URL, and Fetch is
\* past the choice of its candidates
DirectBase ==
    /\ idx <= Len(Repos)
    /\ Repos[idx].Metalink = EmptyStr
    /\ Repos[idx].Baseurl # EmptyStr
    /\ pc # "Fetch"

\* C18: for a repository with a base URL and no metalink the candidates are
\* the one URL <base URL without trailing slash>/repodata/repomd.xml, no
\* metalink is requested and no expected digest recorded; the index is
\* accepted as soon as it is downloaded, saved and parses, whatever its
\* digest, and when the one candidate fails Fetch fails for want of mirrors.
C18_DirectBaseURL ==
    DirectBase =>
        /\ repomdURLs = <<BaseurlPlain \o RepomdPath>>
        /\ sha256sum = EmptyStr
        /\ metalink = NoFile
        /\ RequestsOf("metalink") = {}
        /\ ~(result.kind = "error" /\ result.cause = "checksum" /\ result.stage = "repomd")
        /\ \A i \in IndexRequests :
              LET r == requests[i] IN
              /\ i = 1
              /\ r.cand = 1
              /\ r.url = repomdURLs[1]
              /\ IF ~r.err /\ r.saved /\ r.wellFormed
                 THEN /\ repomd # NoRepomd
                      /\ mirror = IndexBase(r.url)
                      /\ pc # "resolveRepomd"
                 ELSE /\ repomd = NoRepomd
                      /\ Len(requests) = 1
                      /\ \/ pc = "resolveRepomd" /\ k = 2
                         \/ /\ pc = "returned"
                            /\ result = FetchError("repomd", RepoName(idx), "exhausted")

\* the base URL ends in a slash and the index served for it was accepted
C18_Witness ==
    /\ DirectBase
    /\ Repos[idx].Baseurl = BaseurlSlash
    /\ IndexRequests # {}
    /\ repomd # NoRepomd
    /\ pc = "fetchPrimary"

----------------------------------------------------------------------------
\* the typed file of request r was downloaded, saved, and its digest is the
\* sha256 checksum of its index entry
TypedVerified(r) ==
    /\ ~r.err
    /\ r.saved
    /\ ~ChecksumSHA256(EntryOf(r.stage).Checksum).err
    /\ r.sum = ChecksumSHA256(EntryOf(r.stage).Checksum).sum

\* C19: the stages of a repository are strictly ordered.  A typed file is
\* requested only after an index was accepted and a mirror pinned, and no
\* index is requested afterwards; the filelists file is requested only after
\* the primary file was requested, saved and verified; after a primary
\* failure no filelists request follows.
C19_StagesOrdered ==
    /\ \A i \in TypedRequests(PrimaryFileType) \cup TypedRequests(FilelistsFileType) :
          /\ repomd # NoRepomd
          /\ mirror # NoMirror
          /\ \E j \in IndexRequests : j < i /\ Accepted(requests[j])
          /\ \A j \in IndexRequests : j < i
    /\ \A i \in TypedRequests(FilelistsFileType) :
          /\ \E j \in TypedRequests(PrimaryFileType) :
                j < i /\ TypedVerified(requests[j])
          /\ \A j \in TypedRequests(PrimaryFileType) : j < i
    /\ \A j \in TypedRequests(PrimaryFileType) :
          ~TypedVerified(requests[j]) =>
              /\ TypedRequests(FilelistsFileType) = {}
              /\ j = Len(requests)
              /\ pc = "returned"
              /\ result.kind = "error" /\ result.stage = PrimaryFileType
    /\ pc \in {"fetchPrimary", "fetchFilelists", "fetched"} =>
          \E j \in IndexRequests : Accepted(requests[j])
    /\ pc \in {"fetchFilelists", "fetched"} =>
          \E j \in TypedRequests(PrimaryFileType) : TypedVerified(requests[j])

\* the second mirror's index was accepted, the primary file verified, and the
\* filelists file requested
C19_Witness ==
    /\ \E j \in IndexRequests : Accepted(requests[j]) /\ requests[j].cand = 2
    /\ \E j \in TypedRequests(PrimaryFileType) : TypedVerified(requests[j])
    /\ TypedRequests(FilelistsFileType) # {}

----------------------------------------------------------------------------
\* the loop of resolveRepomd went on to the next candidate after request i
WentOn(i) ==
    \/ i < Len(requests)
    \/ pc = "resolveRepomd" /\ k > requests[i].cand
    \/ result.kind = "error" /\ result.cause = "exhausted"

\* C20: with an expected index checksum recorded, a saved index whose digest
\* differs ends Fetch with the checksum error whether or not it parses, and
\* is never decoded: an index over whose decoding failure the loop went on,
\* and the index that was accepted, have the recorded digest.
C20_VerifiedBeforeUnmarshal ==
    sha256sum # EmptyStr =>
        /\ \A i \in IndexRequests :
              LET r == requests[i] IN
              /\ (r.saved /\ r.sum # sha256sum) =>
                    /\ i = Len(requests)
                    /\ repomd = NoRepomd
                    /\ pc = "returned"
                    /\ result = FetchError("repomd", RepoName(idx), "checksum")
              /\ (r.saved /\ WentOn(i)) => r.sum = sha256sum
              /\ (r.saved /\ r.sum = sha256sum /\ ~r.wellFormed) => WentOn(i)
        /\ repomd # NoRepomd =>
              \E i \in IndexRequests :
                  /\ requests[i].saved
                  /\ requests[i].wellFormed
                  /\ requests[i].sum = sha256sum
                  /\ mirror = IndexBase(requests[i].url)
                  /\ \A j \in IndexRequests : j <= i

\* the second mirror served a body that does not parse and whose digest is
\* not the recorded one: Fetch returned the checksum error
C20_Witness ==
    /\ sha256sum # EmptyStr
    /\ requests # <<>>
    /\ LastRequest.stage = "repomd"
    /\ LastRequest.cand = 2
    /\ LastRequest.saved
    /\ ~LastRequest.wellFormed
    /\ LastRequest.sum # sha256sum
    /\ result.kind = "error" /\ result.cause = "checksum"

====
